---- MODULE Spec2Model ----
(***************************************************************************)
(* Streaming text-to-speech queue of examples/say-server/server.py:        *)
(* the session table tts_queues, the five queue tools, the background      *)
(* task _run_tts_queue with its StreamingTextChunker, and delayed cleanup. *)
(*                                                                         *)
(* Text is a sequence of one-character strings over Alphabet.  Every timer *)
(* is kept as the time elapsed on it, in seconds, reduced to the values    *)
(* the program's comparisons tell apart.                                   *)
(***************************************************************************)
EXTENDS Integers, Sequences, FiniteSets, TLC

\* ------------------------------------------------------------------------
\* Bounds of the model
\* ------------------------------------------------------------------------
MaxSessions == 1
MaxFragments == 2
MaxCleanups == 2
MaxTokens == 3
MinTokens == 2
MaxBuffer == 4
TwoSessions == 2

\* ------------------------------------------------------------------------
\* Program constants
\* ------------------------------------------------------------------------
QUEUE_TIMEOUT_SECONDS == 30
CLEANUP_DELAY == 60

Alphabet == {"a", ".", " "}
\* Python's None, where a text is expected and where a message is expected.
None == <<"None">>
NoMessage == "None"

\* ------------------------------------------------------------------------
\* Text: str.strip, the SentencePiece tokenizer and its decoder
\* ------------------------------------------------------------------------
RECURSIVE lstrip(_)
lstrip(s) ==
    IF s = <<>> THEN <<>>
    ELSE IF Head(s) = " " THEN lstrip(Tail(s)) ELSE s

RECURSIVE rstrip(_)
rstrip(s) ==
    IF s = <<>> THEN <<>>
    ELSE IF s[Len(s)] = " " THEN rstrip(SubSeq(s, 1, Len(s) - 1)) ELSE s

strip(s) == rstrip(lstrip(s))

\* The tokenizer's normaliser: runs of whitespace become one space, leading
\* and trailing whitespace is dropped.
RECURSIVE collapse(_)
collapse(s) ==
    IF Len(s) < 2 THEN s
    ELSE IF s[1] = " " /\ s[2] = " " THEN collapse(Tail(s))
    ELSE <<s[1]>> \o collapse(Tail(s))

\* Pieces of a normalised text that starts with the dummy prefix.  A space
\* joins the letter after it ("_a"); before punctuation it stands alone ("_").
RECURSIVE pieces(_)
pieces(s) ==
    IF s = <<>> THEN <<>>
    ELSE IF s[1] = " "
         THEN IF Len(s) >= 2 /\ s[2] = "a"
              THEN <<"_a">> \o pieces(SubSeq(s, 3, Len(s)))
              ELSE <<"_">> \o pieces(Tail(s))
         ELSE <<s[1]>> \o pieces(Tail(s))

tokenizer(text) ==
    LET n == collapse(strip(text))
    IN  IF n = <<>> THEN <<>> ELSE pieces(<<" ">> \o n)

RECURSIVE detok(_)
detok(tokens) ==
    IF tokens = <<>> THEN <<>>
    ELSE (CASE Head(tokens) = "_a" -> <<" ", "a">>
            [] Head(tokens) = "_" -> <<" ">>
            [] OTHER -> <<Head(tokens)>>) \o detok(Tail(tokens))

\* sp.decode: the pieces' text without the dummy prefix.
decode(tokens) ==
    LET t == detok(tokens)
    IN  IF t # <<>> /\ Head(t) = " " THEN Tail(t) ELSE t

\* _, *eos_tokens = tokenizer(".!...?")
eos_tokens == {Tail(tokenizer(<<".">>))[i] : i \in 1..Len(Tail(tokenizer(<<".">>)))}

\* ------------------------------------------------------------------------
\* StreamingTextChunker
\* ------------------------------------------------------------------------
max_tokens == MaxTokens
min_tokens == MinTokens

\* The loop over enumerate(tokens): b is the list of boundaries so far, i the
\* 1-based position of the token looked at (the code's index is i - 1).
RECURSIVE scan_boundaries(_, _, _, _)
scan_boundaries(tokens, i, prev_was_eos, b) ==
    IF i > Len(tokens) THEN b
    ELSE IF tokens[i] \in eos_tokens
         THEN scan_boundaries(tokens, i + 1, TRUE, b)
         ELSE IF prev_was_eos
              THEN scan_boundaries(tokens, i + 1, FALSE, Append(b, i - 1))
              ELSE scan_boundaries(tokens, i + 1, FALSE, b)

\* Variant: a boundary is recorded after every end-of-sentence token.
boundaries_after_each_eos(tokens) ==
    LET RECURSIVE each(_, _)
        each(i, b) ==
            IF i > Len(tokens) THEN b
            ELSE IF tokens[i] \in eos_tokens THEN each(i + 1, Append(b, i))
                 ELSE each(i + 1, b)
    IN  each(1, <<>>)

boundaries_of(tokens) ==
    LET b == scan_boundaries(tokens, 1, FALSE, <<>>)
    IN  IF tokens # <<>> /\ tokens[Len(tokens)] \in eos_tokens
        THEN Append(b, Len(tokens))
        ELSE b

\* The loop "for boundary in boundaries" with its two breaks.
RECURSIVE pick_boundary(_, _, _)
pick_boundary(boundaries, k, best_boundary) ==
    IF k > Len(boundaries) THEN best_boundary
    ELSE IF boundaries[k] <= max_tokens
         THEN pick_boundary(boundaries, k + 1, boundaries[k])
         ELSE IF best_boundary = 0 THEN boundaries[k] ELSE best_boundary

_find_best_split(tokens, force_emit) ==
    LET boundaries == boundaries_of(tokens)
    IN  IF boundaries = <<>>
        THEN IF Len(tokens) >= max_tokens THEN max_tokens
             ELSE IF force_emit THEN Len(tokens) ELSE 0
        ELSE pick_boundary(boundaries, 1, 0)

\* Variant: any non-empty token list counts as a complete sentence.
_ends_with_any_token(tokens) == tokens # <<>>

_ends_with_sentence_boundary(tokens) ==
    IF tokens = <<>> THEN FALSE ELSE tokens[Len(tokens)] \in eos_tokens

\* Variant: a complete sentence is emitted without being taken off the buffer.
_try_extract_chunk_keeping_buffer(buffer, force_emit) ==
    LET text == strip(buffer)
        tokens == tokenizer(text)
        num_tokens == Len(tokens)
        split_idx == _find_best_split(tokens, force_emit)
    IN  IF text = <<>> THEN [chunk |-> None, buffer |-> buffer]
        ELSE IF num_tokens < min_tokens /\ ~force_emit
             THEN [chunk |-> None, buffer |-> buffer]
        ELSE IF num_tokens < max_tokens /\ ~force_emit
             THEN IF num_tokens >= min_tokens /\ _ends_with_sentence_boundary(tokens)
                  THEN [chunk |-> text, buffer |-> buffer]
                  ELSE [chunk |-> None, buffer |-> buffer]
        ELSE IF split_idx = 0
             THEN IF force_emit
                  THEN [chunk |-> text, buffer |-> <<>>]
                  ELSE [chunk |-> None, buffer |-> buffer]
        ELSE [chunk |-> strip(decode(SubSeq(tokens, 1, split_idx))),
              buffer |-> decode(SubSeq(tokens, split_idx + 1, Len(tokens)))]

\* Variant: the text kept after a split starts one token late.
_try_extract_chunk_skipping_token(buffer, force_emit) ==
    LET text == strip(buffer)
        tokens == tokenizer(text)
        num_tokens == Len(tokens)
        split_idx == _find_best_split(tokens, force_emit)
    IN  IF text = <<>> THEN [chunk |-> None, buffer |-> buffer]
        ELSE IF num_tokens < min_tokens /\ ~force_emit
             THEN [chunk |-> None, buffer |-> buffer]
        ELSE IF num_tokens < max_tokens /\ ~force_emit
             THEN IF num_tokens >= min_tokens /\ _ends_with_sentence_boundary(tokens)
                  THEN [chunk |-> text, buffer |-> <<>>]
                  ELSE [chunk |-> None, buffer |-> buffer]
        ELSE IF split_idx = 0
             THEN IF force_emit
                  THEN [chunk |-> text, buffer |-> <<>>]
                  ELSE [chunk |-> None, buffer |-> buffer]
        ELSE [chunk |-> strip(decode(SubSeq(tokens, 1, split_idx))),
              buffer |-> decode(SubSeq(tokens, split_idx + 2, Len(tokens)))]

\* Result: the chunk (or None) and the buffer afterwards.
_try_extract_chunk(buffer, force_emit) ==
    LET text == strip(buffer)
        tokens == tokenizer(text)
        num_tokens == Len(tokens)
        split_idx == _find_best_split(tokens, force_emit)
    IN  IF text = <<>> THEN [chunk |-> None, buffer |-> buffer]
        ELSE IF num_tokens < min_tokens /\ ~force_emit
             THEN [chunk |-> None, buffer |-> buffer]
        ELSE IF num_tokens < max_tokens /\ ~force_emit
             THEN IF num_tokens >= min_tokens /\ _ends_with_sentence_boundary(tokens)
                  THEN [chunk |-> text, buffer |-> <<>>]
                  ELSE [chunk |-> None, buffer |-> buffer]
        ELSE IF split_idx = 0
             THEN IF force_emit
                  THEN [chunk |-> text, buffer |-> <<>>]
                  ELSE [chunk |-> None, buffer |-> buffer]
        ELSE [chunk |-> strip(decode(SubSeq(tokens, 1, split_idx))),
              buffer |-> decode(SubSeq(tokens, split_idx + 1, Len(tokens)))]

\* The "while True" loop; result: the chunks and the buffer afterwards.
RECURSIVE extract_loop(_, _, _)
extract_loop(buffer, force_emit, chunks) ==
    LET r == _try_extract_chunk(buffer, force_emit /\ chunks = <<>>)
    IN  IF r.chunk = None THEN [chunks |-> chunks, buffer |-> buffer]
        ELSE extract_loop(r.buffer, force_emit, Append(chunks, r.chunk))

_extract_ready_chunks(buffer, force_emit) == extract_loop(buffer, force_emit, <<>>)

add_text(buffer, text) == _extract_ready_chunks(buffer \o text, FALSE)

\* Variant: flush extracts like add_text and keeps what is left.
flush_not_forcing(buffer) == _extract_ready_chunks(buffer, FALSE)

\* Variant: flush emits the stripped buffer whatever it holds.
flush_always_emitting(buffer) == [chunks |-> <<strip(buffer)>>, buffer |-> <<>>]

\* Variant: flush tests the buffer itself where the code tests buffer.strip().
flush_testing_raw_buffer(buffer) ==
    IF buffer = <<>> THEN [chunks |-> <<>>, buffer |-> buffer]
    ELSE LET r == _extract_ready_chunks(buffer, TRUE)
         IN  IF r.buffer # <<>>
             THEN [chunks |-> Append(r.chunks, strip(r.buffer)), buffer |-> <<>>]
             ELSE r

flush(buffer) ==
    IF strip(buffer) = <<>> THEN [chunks |-> <<>>, buffer |-> buffer]
    ELSE LET r == _extract_ready_chunks(buffer, TRUE)
         IN  IF strip(r.buffer) # <<>>
             THEN [chunks |-> Append(r.chunks, strip(r.buffer)), buffer |-> <<>>]
             ELSE r

\* ------------------------------------------------------------------------
\* State
\* ------------------------------------------------------------------------
VARIABLES
    tts_model,   \* TRUE when the global TTS model is loaded
    tts_queues,  \* the ids registered in the session table
    state,       \* id -> TTSQueueState, for every session ever created
    task,        \* id -> the session's _run_tts_queue task and its locals
    cleanups,    \* id -> seconds slept by each pending cleanup() task
    last,        \* the last tool call and its response
    hist         \* id -> history kept for the properties

vars == <<tts_model, tts_queues, state, task, cleanups, last, hist>>

Ids == 1..MaxSessions
Voices == {"cosette", "missing.wav"}
SynthErrors == {"synthesis failed", ""}
TimeoutMessage == "Queue timeout: no activity for 30s"
NotLoadedMessage == "TTS model not loaded"

\* The texts a client may add in one call.
Fragments ==
    {<<" ">>, <<"a", ".">>, <<" ", "a">>, <<"a", "a", "a", ".">>,
     <<"a", "a", " ", "a", "a", "a", "a">>}

\* TTSQueueState(id, voice, sample_rate); last_activity is kept as its age
\* idle = time.time() - last_activity: 0 stands for any age below the
\* timeout, then the timeout itself, then any age above it.
TTSQueueState(voice) ==
    [voice |-> voice, status |-> "active", error_message |-> NoMessage,
     text_queue |-> <<>>, end_signaled |-> FALSE,
     audio_chunks |-> <<>>, chunks_delivered |-> 0, idle |-> 0]

\* asyncio.create_task(_run_tts_queue(state)): not yet run.
NewTask ==
    [pc |-> "start", must_cancel |-> FALSE, buffer |-> <<>>, pending |-> <<>>,
     eof |-> FALSE, chunk_index |-> 0, char_offset |-> 0]

\* added: the texts add_tts_text queued; delivered: the chunks the polls
\* returned; sentinels: how often the EOF marker was put; at_cancel: the
\* number of chunks when cancel_tts_queue ran (-1 before); ended:
\* end_tts_queue answered "ended".
NewHist ==
    [added |-> <<>>, delivered |-> <<>>, sentinels |-> 0, at_cancel |-> -1,
     ended |-> FALSE]

Response(op, id, result) ==
    [op |-> op, id |-> id, result |-> result, chunks |-> <<>>, done |-> FALSE,
     status |-> "", error |-> NoMessage]

NoCall == Response("none", 0, "")

TaskDone(t) == t.pc \in {"done", "crashed", "cancelled"}

Init ==
    /\ tts_model \in BOOLEAN
    /\ tts_queues = {}
    /\ state = <<>>
    /\ task = <<>>
    /\ cleanups = <<>>
    /\ hist = <<>>
    /\ last = NoCall

\* ------------------------------------------------------------------------
\* Tools (each runs to completion on the event loop)
\* ------------------------------------------------------------------------
Registered(queue_id) == queue_id \in tts_queues

\* Texts queued so far, over all sessions (MaxFragments bounds them).
RECURSIVE AddsSoFar(_)
AddsSoFar(n) == IF n = 0 THEN 0 ELSE Len(hist[n].added) + AddsSoFar(n - 1)

\* Variant: the "tts_model is None" check of create_tts_queue is missing.
create_without_model_check(voice) ==
    /\ Len(state) < MaxSessions
    /\ LET queue_id == Len(state) + 1
       IN  /\ state' = Append(state, TTSQueueState(voice))
           /\ tts_queues' = tts_queues \cup {queue_id}
           /\ task' = Append(task, NewTask)
           /\ cleanups' = Append(cleanups, <<>>)
           /\ hist' = Append(hist, NewHist)
           /\ last' = Response("create", queue_id, "created")
    /\ UNCHANGED tts_model

create_tts_queue(voice) ==
    IF ~tts_model
    THEN /\ last' = Response("create", 0, NotLoadedMessage)
         /\ UNCHANGED <<tts_model, tts_queues, state, task, cleanups, hist>>
    ELSE /\ Len(state) < MaxSessions
         /\ LET queue_id == Len(state) + 1
            IN  /\ state' = Append(state, TTSQueueState(voice))
                /\ tts_queues' = tts_queues \cup {queue_id}
                /\ task' = Append(task, NewTask)
                /\ cleanups' = Append(cleanups, <<>>)
                /\ hist' = Append(hist, NewHist)
                /\ last' = Response("create", queue_id, "created")
         /\ UNCHANGED tts_model

\* Variant: a lookup of an unknown id enters the id in the table.
NotFound_registering(op, queue_id) ==
    /\ ~Registered(queue_id)
    /\ tts_queues' = tts_queues \cup ({queue_id} \cap DOMAIN state)
    /\ last' = Response(op, queue_id, "Queue not found")
    /\ UNCHANGED <<tts_model, state, task, cleanups, hist>>

\* Every tool answers "Queue not found" for an id that is not in the table.
NotFound(op, queue_id) ==
    /\ ~Registered(queue_id)
    /\ last' = Response(op, queue_id, "Queue not found")
    /\ UNCHANGED <<tts_model, tts_queues, state, task, cleanups, hist>>

\* Variant: the end_signaled check of add_tts_text is missing.
add_never_rejects(s) == FALSE

\* if state.end_signaled: return "Queue already ended"
add_rejects(s) == s.end_signaled

\* Variant: queued text revives the session.
enqueue_text_reactivating(s, text) ==
    [s EXCEPT !.text_queue = Append(@, text), !.idle = 0, !.status = "active"]

\* state.text_queue.put_nowait(text); state.last_activity = time.time()
enqueue_text(s, text) == [s EXCEPT !.text_queue = Append(@, text), !.idle = 0]

add_tts_text(queue_id, text) ==
    \/ NotFound("add_text", queue_id)
    \/ /\ Registered(queue_id)
       /\ IF add_rejects(state[queue_id])
          THEN /\ last' = Response("add_text", queue_id, "Queue already ended")
               /\ UNCHANGED <<state, hist>>
          ELSE /\ AddsSoFar(Len(hist)) < MaxFragments
               /\ state' = [state EXCEPT ![queue_id] = enqueue_text(@, text)]
               /\ hist' = [hist EXCEPT ![queue_id].added = Append(@, text)]
               /\ last' = Response("add_text", queue_id, "queued")
       /\ UNCHANGED <<tts_model, tts_queues, task, cleanups>>

\* Variant: the end_signaled check of end_tts_queue is missing.
end_never_repeated(s) == FALSE

\* if state.end_signaled: return {"already_ended": true}
end_repeated(s) == s.end_signaled

\* Variant: end_tts_queue does not record activity.
signal_end_keeping_clock(s) ==
    [s EXCEPT !.end_signaled = TRUE, !.text_queue = Append(@, None)]

\* end_signaled = True; last_activity = time.time(); put_nowait(None)
signal_end(s) ==
    [s EXCEPT !.end_signaled = TRUE, !.idle = 0, !.text_queue = Append(@, None)]

end_tts_queue(queue_id) ==
    \/ NotFound("end", queue_id)
    \/ /\ Registered(queue_id)
       /\ IF end_repeated(state[queue_id])
          THEN /\ last' = Response("end", queue_id, "already_ended")
               /\ UNCHANGED <<state, hist>>
          ELSE /\ state' = [state EXCEPT ![queue_id] = signal_end(@)]
               /\ hist' = [hist EXCEPT ![queue_id].sentinels = @ + 1,
                                       ![queue_id].ended = TRUE]
               /\ last' = Response("end", queue_id, "ended")
       /\ UNCHANGED <<tts_model, tts_queues, task, cleanups>>

\* task.cancel(): a CancelledError is thrown into the task when it next runs.
\* Under the wait_for of Python 3.10 and 3.11 a task whose queue.get() already
\* has an item returns that item instead and the request is lost; later
\* versions deliver it.
task_cancel(t, text_queue) ==
    IF TaskDone(t) THEN {t}
    ELSE IF t.pc = "wait" /\ text_queue # <<>>
         THEN {[t EXCEPT !.must_cancel = TRUE], t}
         ELSE {[t EXCEPT !.must_cancel = TRUE]}

\* Variant: cancel leaves the status as it is.
cancel_state_keeping_status(s) ==
    [s EXCEPT !.end_signaled = TRUE, !.text_queue = Append(@, None)]

\* end_signaled = True; put_nowait(None); status = "complete"
cancel_state(s) ==
    [s EXCEPT !.end_signaled = TRUE, !.text_queue = Append(@, None),
              !.status = "complete"]

cancel_tts_queue(queue_id) ==
    \/ NotFound("cancel", queue_id)
    \/ /\ Registered(queue_id)
       /\ tts_queues' = tts_queues \ {queue_id}
       /\ \E t \in task_cancel(task[queue_id], state[queue_id].text_queue) :
              task' = [task EXCEPT ![queue_id] = t]
       /\ state' = [state EXCEPT ![queue_id] = cancel_state(@)]
       /\ hist' = [hist EXCEPT
              ![queue_id].sentinels = @ + 1,
              ![queue_id].at_cancel = Len(state[queue_id].audio_chunks)]
       /\ last' = Response("cancel", queue_id, "cancelled")
       /\ UNCHANGED <<tts_model, cleanups>>

\* Variant: the slice ignores the delivery cursor.
poll_all_chunks(s) == s.audio_chunks

\* new_chunks = state.audio_chunks[state.chunks_delivered:]
poll_new_chunks(s) == SubSeq(s.audio_chunks, s.chunks_delivered + 1, Len(s.audio_chunks))

\* Variant: done looks at end_signaled where the code looks at the status.
poll_done_when_ended(s) ==
    /\ s.end_signaled
    /\ s.chunks_delivered >= Len(s.audio_chunks)

\* Variant: done does not look at the status.
poll_done_ignoring_status(s) == s.chunks_delivered >= Len(s.audio_chunks)

\* done, computed after chunks_delivered was advanced
poll_done(s) ==
    /\ s.status = "complete" \/ s.status = "error"
    /\ s.chunks_delivered >= Len(s.audio_chunks)

\* "if state.error_message:" leaves out None and the empty string
poll_error(s) ==
    IF s.error_message # NoMessage /\ s.error_message # "" THEN s.error_message ELSE NoMessage

\* Variant: the cursor is set to the number of chunks just returned.
mark_returned_only(s) ==
    [s EXCEPT !.idle = 0, !.chunks_delivered = Len(poll_new_chunks(s))]

\* last_activity = time.time(); chunks_delivered = len(audio_chunks)
mark_delivered(s) ==
    [s EXCEPT !.idle = 0, !.chunks_delivered = Len(s.audio_chunks)]

poll_tts_audio(queue_id) ==
    \/ NotFound("poll", queue_id)
    \/ /\ Registered(queue_id)
       /\ LET s0 == state[queue_id]
              new_chunks == poll_new_chunks(s0)
              s1 == mark_delivered(s0)
              done == poll_done(s1)
          IN  /\ done => Len(cleanups[queue_id]) < MaxCleanups
              /\ state' = [state EXCEPT ![queue_id] = s1]
              /\ last' = [op |-> "poll", id |-> queue_id, result |-> "polled",
                          chunks |-> new_chunks, done |-> done,
                          status |-> s1.status, error |-> poll_error(s1)]
              /\ cleanups' = [cleanups EXCEPT ![queue_id] =
                                  IF done THEN Append(@, 0) ELSE @]
              /\ hist' = [hist EXCEPT ![queue_id].delivered = @ \o new_chunks]
       /\ UNCHANGED <<tts_model, tts_queues, task>>

\* Variant: cleanup() pops the id without sleeping first.
cleanup_without_delay(queue_id) ==
    /\ queue_id \in DOMAIN cleanups
    /\ cleanups[queue_id] # <<>>
    /\ cleanups' = [cleanups EXCEPT ![queue_id] = Tail(@)]
    /\ tts_queues' = tts_queues \ {queue_id}
    /\ last' = NoCall
    /\ UNCHANGED <<tts_model, state, task, hist>>

\* cleanup(): await asyncio.sleep(60); tts_queues.pop(queue_id, None)
cleanup(queue_id) ==
    /\ queue_id \in DOMAIN cleanups
    /\ cleanups[queue_id] # <<>>
    /\ Head(cleanups[queue_id]) >= CLEANUP_DELAY
    /\ cleanups' = [cleanups EXCEPT ![queue_id] = Tail(@)]
    /\ tts_queues' = tts_queues \ {queue_id}
    /\ last' = NoCall
    /\ UNCHANGED <<tts_model, state, task, hist>>

\* ------------------------------------------------------------------------
\* Background task _run_tts_queue, one step per stretch between two awaits
\* ------------------------------------------------------------------------
\* Variant: the synthesis call runs on the event loop itself, so no other
\* task moves while one session synthesises.
Runnable_one_at_a_time(queue_id) ==
    /\ queue_id \in DOMAIN task
    /\ ~TaskDone(task[queue_id])
    /\ ~task[queue_id].must_cancel
    /\ \A other \in DOMAIN task \ {queue_id} : task[other].pc # "synth"

Runnable(queue_id) ==
    /\ queue_id \in DOMAIN task
    /\ ~TaskDone(task[queue_id])
    /\ ~task[queue_id].must_cancel

\* model_state = tts_model._cached_get_state_for_audio_prompt(voice): raises
\* for a voice that cannot be resolved.
voice_state_fails(voice) == voice = "missing.wav"

\* Variant: the status is set to "complete" as soon as the EOF marker has been
\* read, before the chunks the flush returned are synthesised.
after_chunks_completing_early(s, t) ==
    IF t.eof THEN <<[s EXCEPT !.status = "complete"], [t EXCEPT !.pc = "done"]>>
    ELSE IF t.pending # <<>> THEN <<s, [t EXCEPT !.pc = "synth"]>>
    ELSE <<s, [t EXCEPT !.pc = "wait"]>>

\* After a chunk loop: back to wait_for, or "complete" after the flush.
after_chunks(s, t) ==
    IF t.pending # <<>> THEN <<s, [t EXCEPT !.pc = "synth"]>>
    ELSE IF t.eof THEN <<[s EXCEPT !.status = "complete"], [t EXCEPT !.pc = "done"]>>
    ELSE <<s, [t EXCEPT !.pc = "wait"]>>

TaskUpdate(queue_id, st) ==
    /\ state' = [state EXCEPT ![queue_id] = st[1]]
    /\ task' = [task EXCEPT ![queue_id] = st[2]]
    /\ last' = NoCall
    /\ UNCHANGED <<tts_model, tts_queues, cleanups>>

\* From the start of the coroutine to the first wait_for.
TaskStart(queue_id) ==
    /\ Runnable(queue_id)
    /\ task[queue_id].pc = "start"
    /\ LET s == state[queue_id]
           t == task[queue_id]
       IN  TaskUpdate(queue_id,
             IF ~tts_model
             THEN <<[s EXCEPT !.status = "error", !.error_message = NotLoadedMessage],
                    [t EXCEPT !.pc = "done"]>>
             ELSE IF voice_state_fails(s.voice)
                  THEN <<s, [t EXCEPT !.pc = "crashed"]>>
                  ELSE <<s, [t EXCEPT !.pc = "wait"]>>)
    /\ UNCHANGED hist

\* wait_for returned an item: EOF marker or text.
TaskGet(queue_id) ==
    /\ Runnable(queue_id)
    /\ task[queue_id].pc = "wait"
    /\ state[queue_id].text_queue # <<>>
    /\ LET s == state[queue_id]
           t == task[queue_id]
           text_item == Head(s.text_queue)
           s1 == [s EXCEPT !.text_queue = Tail(@)]
           r == IF text_item = None THEN flush(t.buffer) ELSE add_text(t.buffer, text_item)
           t1 == [t EXCEPT !.buffer = r.buffer, !.pending = r.chunks,
                           !.eof = (text_item = None)]
       IN  TaskUpdate(queue_id, after_chunks(s1, t1))
    /\ UNCHANGED hist

\* Variant: char_end counts one separator after the chunk's text.
AudioChunkData_with_separator(text, chunk_index, char_offset) ==
    [index |-> chunk_index, audio |-> text,
     char_start |-> char_offset, char_end |-> char_offset + Len(text) + 1]

\* AudioChunkData(index, audio_base64, char_start, char_end, duration_ms);
\* the audio is represented by the text it was synthesised from.
AudioChunkData(text, chunk_index, char_offset) ==
    [index |-> chunk_index, audio |-> text,
     char_start |-> char_offset, char_end |-> char_offset + Len(text)]

\* Variant: the loop does not advance chunk_index.
process_chunk_same_index(s, t) ==
    LET chunk_text == Head(t.pending)
    IN  <<[s EXCEPT !.audio_chunks =
               Append(@, AudioChunkData(chunk_text, t.chunk_index, t.char_offset))],
          [t EXCEPT !.pending = Tail(@),
                    !.char_offset = @ + Len(chunk_text)]>>

\* Variant: the chunks of one loop are synthesised last first.
process_chunk_out_of_order(s, t) ==
    LET chunk_text == t.pending[Len(t.pending)]
    IN  <<[s EXCEPT !.audio_chunks =
               Append(@, AudioChunkData(chunk_text, t.chunk_index, t.char_offset))],
          [t EXCEPT !.pending = SubSeq(@, 1, Len(@) - 1),
                    !.char_offset = @ + Len(chunk_text),
                    !.chunk_index = @ + 1]>>

\* _process_tts_chunk after run_in_executor returned, then the loop's
\* char_offset += len(chunk_text); chunk_index += 1
process_chunk(s, t) ==
    LET chunk_text == Head(t.pending)
    IN  <<[s EXCEPT !.audio_chunks =
               Append(@, AudioChunkData(chunk_text, t.chunk_index, t.char_offset))],
          [t EXCEPT !.pending = Tail(@),
                    !.char_offset = @ + Len(chunk_text),
                    !.chunk_index = @ + 1]>>

SynthOk(queue_id) ==
    /\ Runnable(queue_id)
    /\ task[queue_id].pc = "synth"
    /\ LET st == process_chunk(state[queue_id], task[queue_id])
       IN  TaskUpdate(queue_id, after_chunks(st[1], st[2]))
    /\ UNCHANGED hist

\* Variant: the failed chunk is skipped and the loop goes on.
synth_failed_skipping(s, t, message) ==
    after_chunks([s EXCEPT !.status = "error", !.error_message = message],
                 [t EXCEPT !.pending = Tail(@)])

\* except Exception as e: status = "error"; error_message = str(e)
synth_failed(s, t, message) ==
    <<[s EXCEPT !.status = "error", !.error_message = message],
      [t EXCEPT !.pc = "done"]>>

\* run_in_executor raised: the exception leaves both loops.
SynthFail(queue_id, message) ==
    /\ Runnable(queue_id)
    /\ task[queue_id].pc = "synth"
    /\ TaskUpdate(queue_id, synth_failed(state[queue_id], task[queue_id], message))
    /\ UNCHANGED hist

\* Variant: the staleness test includes the threshold itself.
is_stale_at_threshold(s) == s.idle >= QUEUE_TIMEOUT_SECONDS

\* time.time() - state.last_activity > QUEUE_TIMEOUT_SECONDS
is_stale(s) == s.idle > QUEUE_TIMEOUT_SECONDS

\* The body of "except asyncio.TimeoutError": error and break, or continue.
timeout_check(s, t) ==
    IF is_stale(s)
    THEN <<[s EXCEPT !.status = "error", !.error_message = TimeoutMessage],
           [t EXCEPT !.pc = "done"]>>
    ELSE <<s, t>>

\* The task sits in wait_for on an empty queue: its next step is the check.
\* Variant: the staleness check runs every 5 seconds whatever the queue holds.
AtTimeoutCheck_whatever_queued(queue_id) ==
    /\ Runnable(queue_id)
    /\ task[queue_id].pc = "wait"

AtTimeoutCheck(queue_id) ==
    /\ Runnable(queue_id)
    /\ task[queue_id].pc = "wait"
    /\ state[queue_id].text_queue = <<>>

\* except asyncio.TimeoutError: the 5 seconds passed without an item.
TaskTimeout(queue_id) ==
    /\ AtTimeoutCheck(queue_id)
    /\ TaskUpdate(queue_id, timeout_check(state[queue_id], task[queue_id]))
    /\ UNCHANGED hist

\* The CancelledError reaches the task; "except Exception" does not catch it.
TaskCancelled(queue_id) ==
    /\ queue_id \in DOMAIN task
    /\ ~TaskDone(task[queue_id])
    /\ task[queue_id].must_cancel
    /\ TaskUpdate(queue_id,
         <<state[queue_id], [task[queue_id] EXCEPT !.pc = "cancelled", !.must_cancel = FALSE]>>)
    /\ UNCHANGED hist

\* ------------------------------------------------------------------------
\* Time
\* ------------------------------------------------------------------------
\* Time passes on a session's activity clock, which only the session's
\* running task reads.
Elapse(queue_id) ==
    /\ queue_id \in DOMAIN state
    /\ ~TaskDone(task[queue_id])
    /\ state[queue_id].idle <= QUEUE_TIMEOUT_SECONDS
    /\ state' = [state EXCEPT ![queue_id].idle =
                    IF @ < QUEUE_TIMEOUT_SECONDS THEN QUEUE_TIMEOUT_SECONDS
                    ELSE QUEUE_TIMEOUT_SECONDS + 1]
    /\ last' = NoCall
    /\ UNCHANGED <<tts_model, tts_queues, task, cleanups, hist>>

\* The oldest cleanup() task still in asyncio.sleep(60) has slept its delay.
Sleep(queue_id) ==
    /\ queue_id \in DOMAIN cleanups
    /\ \E k \in DOMAIN cleanups[queue_id] :
          /\ cleanups[queue_id][k] < CLEANUP_DELAY
          /\ \A j \in 1..(k - 1) : cleanups[queue_id][j] >= CLEANUP_DELAY
          /\ cleanups' = [cleanups EXCEPT ![queue_id][k] = CLEANUP_DELAY]
    /\ last' = NoCall
    /\ UNCHANGED <<tts_model, tts_queues, state, task, hist>>

\* ------------------------------------------------------------------------
\* Specification
\* ------------------------------------------------------------------------
Next ==
    \/ \E voice \in Voices : create_tts_queue(voice)
    \/ \E queue_id \in Ids, text \in Fragments : add_tts_text(queue_id, text)
    \/ \E queue_id \in Ids : end_tts_queue(queue_id)
    \/ \E queue_id \in Ids : cancel_tts_queue(queue_id)
    \/ \E queue_id \in Ids : poll_tts_audio(queue_id)
    \/ \E queue_id \in Ids : cleanup(queue_id)
    \/ \E queue_id \in Ids : TaskStart(queue_id)
    \/ \E queue_id \in Ids : TaskGet(queue_id)
    \/ \E queue_id \in Ids : SynthOk(queue_id)
    \/ \E queue_id \in Ids, message \in SynthErrors : SynthFail(queue_id, message)
    \/ \E queue_id \in Ids : TaskTimeout(queue_id)
    \/ \E queue_id \in Ids : TaskCancelled(queue_id)
    \/ \E queue_id \in Ids : Elapse(queue_id)
    \/ \E queue_id \in Ids : Sleep(queue_id)

Spec == Init /\ [][Next]_vars

\* ------------------------------------------------------------------------
\* Two sessions side by side: the server after two create_tts_queue calls
\* with the model loaded, driven with one text and one failure message.
\* ------------------------------------------------------------------------
PairIds == 1..TwoSessions
PairFragments == {<<"a", ".">>}
PairErrors == {"synthesis failed"}

PairInit ==
    /\ tts_model = TRUE
    /\ tts_queues = PairIds
    /\ state = [q \in PairIds |-> TTSQueueState("cosette")]
    /\ task = [q \in PairIds |-> NewTask]
    /\ cleanups = [q \in PairIds |-> <<>>]
    /\ hist = [q \in PairIds |-> NewHist]
    /\ last = Response("create", TwoSessions, "created")

PairNext ==
    \/ \E queue_id \in PairIds, text \in PairFragments : add_tts_text(queue_id, text)
    \/ \E queue_id \in PairIds : end_tts_queue(queue_id)
    \/ \E queue_id \in PairIds : cancel_tts_queue(queue_id)
    \/ \E queue_id \in PairIds : poll_tts_audio(queue_id)
    \/ \E queue_id \in PairIds : cleanup(queue_id)
    \/ \E queue_id \in PairIds : TaskStart(queue_id)
    \/ \E queue_id \in PairIds : TaskGet(queue_id)
    \/ \E queue_id \in PairIds : SynthOk(queue_id)
    \/ \E queue_id \in PairIds, message \in PairErrors : SynthFail(queue_id, message)
    \/ \E queue_id \in PairIds : TaskTimeout(queue_id)
    \/ \E queue_id \in PairIds : TaskCancelled(queue_id)
    \/ \E queue_id \in PairIds : Elapse(queue_id)
    \/ \E queue_id \in PairIds : Sleep(queue_id)

PairSpec == PairInit /\ [][PairNext]_vars

\* ------------------------------------------------------------------------
\* Properties
\* ------------------------------------------------------------------------
Terminal == {"complete", "error"}

Polled == last.op = "poll" /\ last.result = "polled"

RECURSIVE Flatten(_)
Flatten(texts) == IF texts = <<>> THEN <<>> ELSE Head(texts) \o Flatten(Tail(texts))

ChunkTexts(queue_id) ==
    [k \in DOMAIN state[queue_id].audio_chunks |-> state[queue_id].audio_chunks[k].audio]

\* The session's cumulative text: all added fragments in order.
CumulativeText(queue_id) == Flatten(hist[queue_id].added)

\* The session was ended by end_tts_queue and its task finished the flush.
CompletedByEof(queue_id) ==
    /\ state[queue_id].status = "complete"
    /\ task[queue_id].pc = "done"
    /\ task[queue_id].eof
    /\ hist[queue_id].at_cancel = -1

\* C1: poll_audio never redelivers a chunk: what the polls of a session have
\* returned so far is exactly the first chunks_delivered chunks of its list,
\* each once and in increasing index order, and right after a poll it is the
\* whole list, the poll's own chunks being the ones appended since the poll
\* before it.
C1_NoRedelivery ==
    \A q \in DOMAIN state :
        LET d == hist[q].delivered
            s == state[q]
        IN  /\ s.chunks_delivered <= Len(s.audio_chunks)
            /\ d = SubSeq(s.audio_chunks, 1, s.chunks_delivered)
            /\ \A i, j \in 1..Len(d) : i < j => d[i].index < d[j].index
            /\ (Polled /\ last.id = q) =>
                  /\ d = s.audio_chunks
                  /\ Len(last.chunks) <= Len(d)
                  /\ last.chunks = SubSeq(d, Len(d) - Len(last.chunks) + 1, Len(d))

\* A second poll returns new chunks after an earlier poll returned some.
C1_Witness ==
    /\ Polled
    /\ last.chunks # <<>>
    /\ Len(hist[last.id].delivered) > Len(last.chunks)

\* C2: a poll answers done = true exactly when the session's status is
\* complete or error and the delivered count equals the number of chunks;
\* while the status is active every poll answers done = false.
C2_DoneExactly ==
    Polled =>
        LET s == state[last.id]
        IN  /\ last.done <=> (s.status \in Terminal
                              /\ s.chunks_delivered = Len(s.audio_chunks))
            /\ s.status = "active" => ~last.done

\* A poll that delivers the last chunks of a finished session answers done.
C2_Witness ==
    /\ Polled
    /\ last.done
    /\ last.chunks # <<>>
    /\ Len(hist[last.id].delivered) > Len(last.chunks)

\* C3: when a session ended by end_queue is complete, the texts of its
\* chunks, concatenated in index order, are the concatenation of all added
\* fragments.
C3_TextPreserved ==
    \A q \in DOMAIN state :
        CompletedByEof(q) => Flatten(ChunkTexts(q)) = CumulativeText(q)

\* C4: when a session ended by end_queue is complete, the chunks' character
\* ranges tile [0, total_length): the first starts at 0, the last ends at the
\* total length of the added fragments, and each range holds the chunk's own
\* text inside the cumulative text.
C4_RangesTile ==
    \A q \in DOMAIN state :
        LET chunks == state[q].audio_chunks
            total == CumulativeText(q)
        IN  (CompletedByEof(q) /\ chunks # <<>>) =>
               /\ chunks[1].char_start = 0
               /\ chunks[Len(chunks)].char_end = Len(total)
               /\ \A k \in DOMAIN chunks :
                     SubSeq(total, chunks[k].char_start + 1, chunks[k].char_end)
                         = chunks[k].audio

\* C5: after cancel_queue returned, no chunk is appended to the session's
\* chunk list: its length stays the one observed at cancel time.
C5_NoChunkAfterCancel ==
    \A q \in DOMAIN state :
        hist[q].at_cancel >= 0 => Len(state[q].audio_chunks) = hist[q].at_cancel

\* C6: no transition leaves a terminal state: once the status is complete or
\* error no step changes it.
C6_TerminalIsFinal ==
    [][\A q \in DOMAIN state :
          state[q].status \in Terminal => state'[q].status = state[q].status]_vars

\* C7: once a session's status has left active it never returns to active.
C7_NeverBackToActive ==
    [][\A q \in DOMAIN state :
          state[q].status # "active" => state'[q].status # "active"]_vars

\* Text was queued on a session in error, which stayed in error.
C7_Witness ==
    \E q \in DOMAIN state :
        /\ state[q].status = "error"
        /\ last.op = "add_text" /\ last.id = q /\ last.result = "queued"

\* C8: add_text on a registered session for which end_queue has succeeded
\* fails with "Queue already ended" and leaves the session as it was: nothing
\* is queued and the activity clock is not reset.
C8_AddAfterEnd ==
    [][\A q \in tts_queues :
          (last'.op = "add_text" /\ last'.id = q /\ hist[q].ended) =>
              /\ last'.result = "Queue already ended"
              /\ state'[q] = state[q]
              /\ hist'[q] = hist[q]]_vars

\* add_text was refused on an ended session whose activity clock had advanced.
C8_Witness ==
    /\ last.op = "add_text"
    /\ last.result = "Queue already ended"
    /\ state[last.id].idle > 0

\* C9: the first end_queue on a registered session marks end-of-stream and
\* queues the EOF marker; every later one answers already_ended and changes
\* nothing of the session (queue, activity clock, status).
C9_EndIdempotent ==
    [][\A q \in tts_queues :
          (last'.op = "end" /\ last'.id = q) =>
              IF hist[q].ended
              THEN /\ last'.result = "already_ended"
                   /\ state'[q] = state[q]
                   /\ hist'[q] = hist[q]
              ELSE /\ last'.result = "ended"
                   /\ state'[q].end_signaled
                   /\ state'[q].text_queue = Append(state[q].text_queue, None)
                   /\ state'[q].status = state[q].status]_vars

\* A repeated end_queue on a session whose activity clock had advanced.
C9_Witness ==
    /\ last.op = "end"
    /\ last.result = "already_ended"
    /\ state[last.id].idle > 0

\* C10: the EOF marker is put into a session's text queue at most once.
C10_OneSentinel ==
    \A q \in DOMAIN state : hist[q].sentinels <= 1

\* C11 (as stated): a session whose last activity is 30 seconds or more ago
\* is moved to error with the timeout message by the task's next check.
C11_TimeoutFrom30 ==
    \A q \in DOMAIN state :
        (AtTimeoutCheck(q) /\ state[q].idle >= QUEUE_TIMEOUT_SECONDS) =>
            LET st == timeout_check(state[q], task[q])
            IN  st[1].status = "error" /\ st[1].error_message = TimeoutMessage

\* C11 (amended): the task's check moves the session to error with the
\* timeout message, and ends the task, exactly when the last activity is
\* more than 30 seconds ago; at 30 seconds or less it changes nothing.  The
\* timeout message is only ever set on a task that ended that way.
C11_TimeoutAbove30 ==
    \A q \in DOMAIN state :
        /\ AtTimeoutCheck(q) =>
              LET st == timeout_check(state[q], task[q])
              IN  IF state[q].idle > QUEUE_TIMEOUT_SECONDS
                  THEN /\ st[1].status = "error"
                       /\ st[1].error_message = TimeoutMessage
                       /\ st[2].pc = "done"
                  ELSE st = <<state[q], task[q]>>
        /\ state[q].error_message = TimeoutMessage =>
              task[q].pc = "done" /\ ~task[q].eof

\* A session timed out while still registered and is in error.
C11_Witness ==
    \E q \in tts_queues :
        /\ state[q].status = "error"
        /\ state[q].error_message = TimeoutMessage
        /\ task[q].pc = "done"

\* The tool call just answered was a successful add_text, end_queue or
\* poll_audio on session q.
Succeeded(call, q) ==
    /\ call.id = q
    /\ \/ call.op = "add_text" /\ call.result = "queued"
       \/ call.op = "end" /\ call.result = "ended"
       \/ call.op = "poll" /\ call.result = "polled"

C13_SynthesisFailureStops ==
    [][\A q \in DOMAIN state :
          /\ (state'[q].error_message \in SynthErrors
                 /\ state[q].error_message \notin SynthErrors) =>
                /\ task[q].pc = "synth"
                /\ state'[q].status = "error"
                /\ task'[q].pc = "done"
                /\ state'[q].audio_chunks = state[q].audio_chunks
          /\ state[q].error_message \in SynthErrors =>
                /\ task'[q].pc = "done"
                /\ state'[q].audio_chunks = state[q].audio_chunks
                /\ (Succeeded(last', q) /\ last'.op = "poll") =>
                      last'.chunks = SubSeq(state[q].audio_chunks,
                                            state[q].chunks_delivered + 1,
                                            Len(state[q].audio_chunks))]_vars

\* After the second chunk's synthesis failed, a poll delivered the first.
C13_Witness ==
    \E q \in tts_queues :
        /\ state[q].error_message \in SynthErrors
        /\ task[q].pending # <<>>
        /\ Succeeded(last, q) /\ last.op = "poll"
        /\ last.chunks # <<>>
        /\ last.status = "error"

\* C14: a session on which end_queue succeeded eventually has status
\* complete or error.  Only the session's task (or a cancel) ever sets the
\* status, so while such a session is still active its task has not ended.
C14_EndLeadsToTerminal ==
    \A q \in DOMAIN state :
        (hist[q].ended /\ state[q].status \notin Terminal) =>
            ~TaskDone(task[q])

\* C15: every session that reaches complete or error is eventually removed
\* from the table by the delayed-cleanup timer, whether or not it is polled
\* again.  Without a poll only a pending cleanup() removes a session, so a
\* registered session in a terminal status has a cleanup timer running.
C15_TerminalIsCleanedUp ==
    \A q \in tts_queues :
        state[q].status \in Terminal => cleanups[q] # <<>>

\* Every chunk the chunker has emitted for session queue_id: the ones already
\* synthesised and the ones waiting in the task's chunk loop.
EmittedChunks(queue_id) == ChunkTexts(queue_id) \o task[queue_id].pending

\* C16: no chunk emitted by the chunker, from add_text or from flush, has
\* more than max_tokens tokens.
C16_ChunkWithinMax ==
    \A q \in DOMAIN state :
        \A k \in DOMAIN EmittedChunks(q) :
            Len(tokenizer(EmittedChunks(q)[k])) <= max_tokens

\* Every text of at most MaxBuffer characters, as a chunker buffer, and what
\* flush makes of each.
Buffers == UNION {[1..n -> Alphabet] : n \in 0..MaxBuffer}

FlushTable == [b \in Buffers |-> flush(b)]

\* C17 (as stated): after flush the chunker's buffer is empty, whatever it held; the
\* task flushes when it reads the EOF marker.
C17_FlushDrains ==
    \A q \in DOMAIN task : task[q].eof => task[q].buffer = <<>>

\* flush of buffer b, result r: a buffer holding text is drained into one or
\* more chunks; an empty or whitespace-only buffer is left as it is, with no
\* chunk.
DrainsText(b, r) ==
    IF strip(b) = <<>>
    THEN r = [chunks |-> <<>>, buffer |-> b]
    ELSE r.buffer = <<>> /\ r.chunks # <<>>

\* Every text up to MaxBuffer characters is flushed that way.
AllBuffersDrain == \A b \in Buffers : DrainsText(b, FlushTable[b])

\* A flush of what a flush left behind emits nothing and changes nothing.
SecondFlushIsEmpty ==
    \A b \in Buffers :
        flush(FlushTable[b].buffer) = [chunks |-> <<>>, buffer |-> FlushTable[b].buffer]

\* C17 (amended): flush drains to empty every buffer that holds more than
\* whitespace, emitting at least one chunk; a whitespace-only buffer stays
\* as it is.  Checked for every text up to MaxBuffer characters, for every
\* buffer a task holds, and for the buffer a task has flushed.
C17_FlushDrainsText ==
    /\ AllBuffersDrain
    /\ \A q \in DOMAIN task :
          /\ DrainsText(task[q].buffer, flush(task[q].buffer))
          /\ task[q].eof => strip(task[q].buffer) = <<>>

\* The task flushed a buffer that held text: the one chunk of a session whose
\* only text was kept back by add_text comes from the flush.
C17_Witness ==
    \E q \in DOMAIN task :
        /\ task[q].eof /\ task[q].buffer = <<>>
        /\ hist[q].added = << <<" ", "a">> >>
        /\ Len(EmittedChunks(q)) = 1

\* C18: flush on an empty buffer returns no chunk and leaves the buffer
\* empty, so a flush right after a flush emits nothing and changes nothing.
C18_FlushIdempotent ==
    /\ flush(<<>>) = [chunks |-> <<>>, buffer |-> <<>>]
    /\ SecondFlushIsEmpty
    /\ \A q \in DOMAIN task :
          task[q].eof =>
              flush(task[q].buffer) = [chunks |-> <<>>, buffer |-> task[q].buffer]

\* The task flushed the empty buffer of a session that got no text.
C18_Witness ==
    \E q \in DOMAIN task :
        /\ task[q].eof /\ task[q].pc = "done"
        /\ hist[q].added = <<>>
        /\ task[q].buffer = <<>>
        /\ state[q].audio_chunks = <<>>

\* C19: the chunk at list position k (counted from 0) has index k, and a
\* step only ever appends to a session's chunk list: the chunks already in
\* it stay where and what they are.
C19_IndexIsPosition ==
    [][\A q \in DOMAIN state :
          LET old == state[q].audio_chunks
              new == state'[q].audio_chunks
          IN  /\ Len(new) >= Len(old)
              /\ SubSeq(new, 1, Len(old)) = old
              /\ \A k \in DOMAIN new : new[k].index = k - 1]_vars

\* A session's list holds two chunks.
C19_Witness ==
    \E q \in DOMAIN state :
        /\ Len(state[q].audio_chunks) = 2
        /\ state[q].audio_chunks[2].index = 1

\* C20: chunks_delivered is never above the length of the chunk list and
\* never decreases.
C20_CursorBounded ==
    [][/\ \A q \in DOMAIN state' :
             state'[q].chunks_delivered <= Len(state'[q].audio_chunks)
       /\ \A q \in DOMAIN state :
             state'[q].chunks_delivered >= state[q].chunks_delivered]_vars

\* A second chunk was appended after a poll had delivered the first.
C20_Witness ==
    \E q \in DOMAIN state :
        /\ state[q].chunks_delivered = 1
        /\ Len(state[q].audio_chunks) = 2

\* C21: in a session's chunk list chunk 0 starts at character 0, each chunk
\* starts where the one before it ends, and each range is as long as the
\* chunk's text.
C21_RangesContiguous ==
    \A q \in DOMAIN state :
        LET chunks == state[q].audio_chunks
        IN  /\ chunks # <<>> => chunks[1].char_start = 0
            /\ \A k \in DOMAIN chunks :
                  /\ chunks[k].char_end - chunks[k].char_start = Len(chunks[k].audio)
                  /\ k > 1 => chunks[k].char_start = chunks[k - 1].char_end

\* A second chunk starts where a first, non-empty one ends.
C21_Witness ==
    \E q \in DOMAIN state :
        /\ Len(state[q].audio_chunks) >= 2
        /\ state[q].audio_chunks[2].char_start > 0
        /\ state[q].audio_chunks[2].char_end > state[q].audio_chunks[2].char_start

QueueTools == {"add_text", "end", "poll", "cancel"}

\* C22: cancel_queue on a registered session, whatever its status, answers
\* "cancelled", removes the id from the table, sets end_signaled and sets the
\* status to complete; the id never comes back, and every later add_text,
\* end_queue, poll_audio or cancel_queue for it answers "Queue not found".
C22_CancelReleases ==
    [][\A q \in DOMAIN state :
          /\ (last'.op = "cancel" /\ last'.id = q /\ q \in tts_queues) =>
                /\ last'.result = "cancelled"
                /\ q \notin tts_queues'
                /\ state'[q].end_signaled
                /\ state'[q].status = "complete"
          /\ hist[q].at_cancel >= 0 =>
                /\ q \notin tts_queues'
                /\ (last'.id = q /\ last'.op \in QueueTools) =>
                      last'.result = "Queue not found"]_vars

\* A session that was in error when it was cancelled is polled afterwards.
C22_Witness ==
    /\ last.op = "poll" /\ last.result = "Queue not found"
    /\ last.id \in DOMAIN state
    /\ hist[last.id].at_cancel >= 0
    /\ state[last.id].error_message # NoMessage
    /\ state[last.id].status = "complete"

\* C23: a tool called with an id that is not in the table answers
\* "Queue not found" and changes neither the table nor any session, task or
\* cleanup timer.
C23_NotFoundChangesNothing ==
    [][(last'.op \in QueueTools /\ last'.id \notin tts_queues) =>
          /\ last'.result = "Queue not found"
          /\ UNCHANGED <<tts_queues, state, task, cleanups>>]_vars

\* An unknown id is cancelled while another session holds audio.
C23_Witness ==
    /\ last.op = "cancel" /\ last.result = "Queue not found"
    /\ \E q \in tts_queues : q # last.id /\ state[q].audio_chunks # <<>>

\* C24: without a loaded model create_queue answers "TTS model not loaded"
\* and leaves the table, the sessions and the tasks as they were; with a
\* loaded model it registers a new id whose session is active, has no audio
\* chunks and a delivered count of 0, and whose task has been created.
C24_CreateOutcome ==
    [][last'.op = "create" =>
          IF tts_model
          THEN /\ last'.result = "created"
               /\ last'.id \notin DOMAIN state
               /\ tts_queues' = tts_queues \cup {last'.id}
               /\ state'[last'.id].status = "active"
               /\ state'[last'.id].audio_chunks = <<>>
               /\ state'[last'.id].chunks_delivered = 0
               /\ task'[last'.id].pc = "start"
          ELSE /\ last'.result = NotLoadedMessage
               /\ UNCHANGED <<tts_queues, state, task>>]_vars

\* create_queue has been refused for want of a model.
C24_Witness ==
    /\ ~tts_model
    /\ last.op = "create" /\ last.result = NotLoadedMessage
    /\ tts_queues = {} /\ task = <<>>

\* C25: a poll of a registered session whose status is error is answered
\* (it does not fail) with status "error", done = true and an error field
\* that carries the session's failure message, whatever that message is.
C25_ErrorReported ==
    \A q \in DOMAIN state :
        (Polled /\ last.id = q /\ state[q].status = "error") =>
            /\ last.status = "error"
            /\ last.done
            /\ last.error # NoMessage
            /\ last.error = state[q].error_message

\* The step reads or writes session a.
Touches(a) ==
    \/ last'.id = a
    \/ state'[a] # state[a]
    \/ task'[a] # task[a]
    \/ cleanups'[a] # cleanups[a]
    \/ (a \in tts_queues) # (a \in tts_queues')

\* The task of session b stands at pc and no cancellation is pending for it.
Ready(b, pc) == task[b].pc = pc /\ ~task[b].must_cancel

\* Every tool of session b can be called and every due step of its task can
\* be taken (for the step that takes an item off the queue: its guard holds).
StepsEnabled(b) ==
    /\ ENABLED end_tts_queue(b)
    /\ ENABLED cancel_tts_queue(b)
    /\ (b \in tts_queues /\ Len(cleanups[b]) < MaxCleanups) => ENABLED poll_tts_audio(b)
    /\ (b \in tts_queues /\ AddsSoFar(Len(hist)) < MaxFragments) =>
           \A text \in PairFragments : ENABLED add_tts_text(b, text)
    /\ Ready(b, "start") => ENABLED TaskStart(b)
    /\ Ready(b, "wait") => Runnable(b)
    /\ (Ready(b, "wait") /\ state[b].text_queue = <<>>) => ENABLED TaskTimeout(b)
    /\ Ready(b, "synth") =>
           /\ ENABLED SynthOk(b)
           /\ \A message \in PairErrors : ENABLED SynthFail(b, message)

\* C26: a step on one session leaves the other session's fields, its task
\* and its place in the table as they were; and while one session has a
\* synthesis call in flight, the tools and the due task steps of the other
\* session can still be taken.
C26_SessionsIndependent ==
    [][\A a, b \in PairIds :
          a # b =>
             /\ Touches(a) =>
                   /\ state'[b] = state[b]
                   /\ task'[b] = task[b]
                   /\ cleanups'[b] = cleanups[b]
                   /\ (b \in tts_queues) = (b \in tts_queues')
             /\ task[a].pc = "synth" => StepsEnabled(b)]_vars

\* Both sessions are synthesising at once and one of them has just been polled.
C26_Witness ==
    \E a, b \in PairIds :
        /\ a # b
        /\ task[a].pc = "synth" /\ task[b].pc = "synth"
        /\ b \in tts_queues
        /\ last.op = "poll" /\ last.id = b /\ last.result = "polled"

AddTable == [b \in Buffers |-> [text \in Fragments |-> add_text(b, text)]]

\* add_text(text) on buffer b, result r, when the buffer with the text
\* appended holds fewer than max_tokens tokens: with min_tokens or more
\* tokens, the last of them an end-of-sentence token, the whole stripped
\* buffer is emitted as one chunk and the buffer is emptied; otherwise no
\* chunk is emitted and the buffer is the old buffer with the text appended.
EmitsEarly(b, text, r) ==
    LET joined == b \o text
        tokens == tokenizer(strip(joined))
        num_tokens == Len(tokens)
    IN  num_tokens < max_tokens =>
            IF num_tokens >= min_tokens /\ tokens[num_tokens] \in eos_tokens
            THEN r = [chunks |-> <<strip(joined)>>, buffer |-> <<>>]
            ELSE r = [chunks |-> <<>>, buffer |-> joined]

\* Every buffer up to MaxBuffer characters, with every fragment.
AllAddsEmitEarly ==
    \A b \in Buffers : \A text \in Fragments : EmitsEarly(b, text, AddTable[b][text])

Blanks == {b \in Buffers : strip(b) = <<>>}

NoBlankChunk(chunks) == \A k \in DOMAIN chunks : strip(chunks[k]) # <<>>

\* add_text of a blank text to a blank buffer emits nothing and leaves a
\* blank buffer behind, and flush of a blank buffer emits nothing: so no
\* sequence of blank texts, flushed or not, yields a chunk.
BlankYieldsNothing ==
    \A b \in Blanks :
        /\ FlushTable[b].chunks = <<>>
        /\ \A text \in Blanks :
              add_text(b, text) = [chunks |-> <<>>, buffer |-> b \o text]

\* No add_text and no flush emits an empty or whitespace-only chunk.
NoBlankChunkEmitted ==
    \A b \in Buffers :
        /\ NoBlankChunk(FlushTable[b].chunks)
        /\ \A text \in Fragments : NoBlankChunk(AddTable[b][text].chunks)

\* C28: texts that are empty or hold only whitespace yield no chunk, from
\* add_text or from flush, and no chunk the chunker emits is empty or
\* whitespace-only.  Checked for every text up to MaxBuffer characters and
\* for every session's chunks.
C28_NoBlankChunks ==
    /\ BlankYieldsNothing
    /\ NoBlankChunkEmitted
    /\ \A q \in DOMAIN state :
          /\ NoBlankChunk(EmittedChunks(q))
          /\ (\A k \in DOMAIN hist[q].added : hist[q].added[k] \in Blanks) =>
                 EmittedChunks(q) = <<>>

\* A session that got two whitespace-only texts was flushed and completed
\* without a chunk.
C28_Witness ==
    \E q \in DOMAIN state :
        /\ hist[q].added = << <<" ">>, <<" ">> >>
        /\ task[q].eof /\ task[q].pc = "done"
        /\ state[q].status = "complete"
        /\ state[q].audio_chunks = <<>>

\* C29 (as stated): once a poll has returned done = true, the session stays
\* in the table until 60 seconds have passed since that poll.
C29_RemovedOnlyAfterDelay ==
    [][\A q \in DOMAIN state :
          (q \in tts_queues /\ cleanups[q] # <<>> /\ q \notin tts_queues') =>
              Head(cleanups[q]) >= CLEANUP_DELAY]_vars

\* C29 (amended): every poll that returns done = true starts one cleanup
\* timer and nothing else does; a session leaves the table only by
\* cancel_queue or by a cleanup whose 60 seconds have passed, and that cleanup
\* can run as soon as they have; while the session is in the table with a
\* timer pending, a poll returns no chunks, done = true and the same terminal
\* status; an id that has left the table stays out, and a poll of it answers
\* "Queue not found".
C29_CleanupAfterDelay ==
    [][\A q \in DOMAIN state :
          /\ cleanups'[q] = Append(cleanups[q], 0) <=>
                (Polled' /\ last'.id = q /\ last'.done /\ q \in tts_queues)
          /\ (q \in tts_queues /\ q \notin tts_queues') =>
                \/ last'.op = "cancel" /\ last'.id = q
                \/ /\ cleanups[q] # <<>>
                   /\ Head(cleanups[q]) >= CLEANUP_DELAY
                   /\ cleanups'[q] = Tail(cleanups[q])
          /\ (cleanups[q] # <<>> /\ Head(cleanups[q]) >= CLEANUP_DELAY) =>
                ENABLED cleanup(q)
          /\ (q \in tts_queues /\ cleanups[q] # <<>>) =>
                /\ state[q].status \in Terminal
                /\ q \in tts_queues' => state'[q].status = state[q].status
                /\ (last'.op = "poll" /\ last'.id = q) =>
                      /\ last'.result = "polled"
                      /\ last'.chunks = <<>>
                      /\ last'.done
                      /\ last'.status = state[q].status
          /\ q \notin tts_queues =>
                /\ q \notin tts_queues'
                /\ (last'.op = "poll" /\ last'.id = q) =>
                      last'.result = "Queue not found"]_vars

\* A session that was never cancelled has been removed by its cleanup and is
\* polled afterwards.
C29_Witness ==
    /\ last.op = "poll" /\ last.result = "Queue not found"
    /\ last.id \in DOMAIN state
    /\ hist[last.id].at_cancel < 0
    /\ state[last.id].status \in Terminal

\* The largest sentence boundary at or before max_tokens, and max_tokens
\* itself when there is none.
SplitWithinMax(tokens) ==
    LET b == boundaries_of(tokens)
        within == {b[k] : k \in {j \in DOMAIN b : b[j] <= max_tokens}}
    IN  IF within = {} THEN max_tokens
        ELSE CHOOSE n \in within : \A m \in within : m <= n

\* C30: when a task's buffer with the next text appended holds max_tokens
\* tokens or more, the chunker splits at the largest sentence boundary that
\* is not past max_tokens, and at exactly max_tokens when there is no such
\* boundary, whatever boundaries lie beyond.
C30_SplitWithinMax ==
    \A q \in DOMAIN task :
        \A text \in Fragments :
            LET tokens == tokenizer(strip(task[q].buffer \o text))
            IN  Len(tokens) >= max_tokens =>
                    _find_best_split(tokens, FALSE) = SplitWithinMax(tokens)

BoundaryTable == [b \in Buffers |-> boundaries_of(tokenizer(b))]

\* The positions after a maximal run of end-of-sentence tokens: p tokens lie
\* before position p, the last of them (tokens[p]) is an end-of-sentence
\* token and the next one, if there is one, is not.
RunEnds(tokens) ==
    {p \in 1..Len(tokens) :
        /\ tokens[p] \in eos_tokens
        /\ p = Len(tokens) \/ tokens[p + 1] \notin eos_tokens}

\* The list of boundaries is increasing and holds exactly the run ends.
BoundariesAreRunEnds(tokens, boundaries) ==
    /\ {boundaries[k] : k \in DOMAIN boundaries} = RunEnds(tokens)
    /\ \A k \in DOMAIN boundaries : k > 1 => boundaries[k - 1] < boundaries[k]

AllBoundariesAreRunEnds ==
    \A b \in Buffers : BoundariesAreRunEnds(tokenizer(b), BoundaryTable[b])

\* C31: the sentence boundaries found in a token list are the positions
\* after a maximal run of end-of-sentence tokens, so a split at a boundary
\* never falls between two consecutive end-of-sentence tokens.  Checked for
\* every text up to MaxBuffer characters and for every buffer a task holds
\* with any next text appended.
C31_BoundaryAfterRun ==
    /\ AllBoundariesAreRunEnds
    /\ \A q \in DOMAIN task :
          \A text \in Fragments :
              LET tokens == tokenizer(strip(task[q].buffer \o text))
              IN  BoundariesAreRunEnds(tokens, boundaries_of(tokens))

\* Two texts were split off together at the boundary after their full stop.
C31_Witness ==
    \E q \in DOMAIN task :
        /\ hist[q].added = << <<" ", "a">>, <<"a", ".">> >>
        /\ ~state[q].end_signaled
        /\ boundaries_of(tokenizer(<<"a", "a", ".">>)) = <<max_tokens>>
        /\ EmittedChunks(q) = << <<"a", "a", ".">> >>

\* A text without its whitespace.
RECURSIVE Squeeze(_)
Squeeze(text) ==
    IF text = <<>> THEN <<>>
    ELSE IF Head(text) = " " THEN Squeeze(Tail(text))
         ELSE <<Head(text)>> \o Squeeze(Tail(text))

\* C32: a session that is complete without having been cancelled was ended
\* by end_queue, and by the time its status is complete every accepted text
\* has left the queue and gone through the chunker in the order of
\* acceptance (the chunks spell the texts, whitespace aside), the chunker
\* has been flushed and every chunk it returned has been appended.
C32_CompleteAfterAllAppended ==
    \A q \in DOMAIN state :
        (state[q].status = "complete" /\ hist[q].at_cancel < 0) =>
            /\ hist[q].ended
            /\ \A k \in DOMAIN state[q].text_queue : state[q].text_queue[k] = None
            /\ task[q].pc = "done"
            /\ task[q].eof
            /\ strip(task[q].buffer) = <<>>
            /\ task[q].pending = <<>>
            /\ Squeeze(Flatten(ChunkTexts(q))) = Squeeze(CumulativeText(q))

\* A session with two accepted texts is complete with two chunks.
C32_Witness ==
    \E q \in DOMAIN state :
        /\ state[q].status = "complete" /\ hist[q].at_cancel < 0
        /\ Len(hist[q].added) = 2
        /\ Len(state[q].audio_chunks) = 2

\* C33: a session's task synthesises one chunk at a time, the first of the
\* chunks the chunker returned and that are not appended yet; a step appends
\* at most one chunk, namely that one, and only then does the next one come
\* up; so the list of emitted chunks only grows at its end and the chunk
\* list follows it in order.
C33_OneSynthesisInOrder ==
    [][\A q \in DOMAIN state :
          LET old == state[q].audio_chunks
              new == state'[q].audio_chunks
          IN  /\ task[q].pc = "synth" => task[q].pending # <<>>
              /\ Len(new) <= Len(old) + 1
              /\ Len(new) = Len(old) + 1 =>
                    /\ task[q].pc = "synth"
                    /\ new[Len(new)].audio = Head(task[q].pending)
                    /\ task'[q].pending = Tail(task[q].pending)
              /\ Len(EmittedChunks(q)') >= Len(EmittedChunks(q))
              /\ SubSeq(EmittedChunks(q)', 1, Len(EmittedChunks(q))) = EmittedChunks(q)]_vars

\* The first chunk of a text is in the list and the second is being
\* synthesised.
C33_Witness ==
    \E q \in DOMAIN state :
        /\ Len(hist[q].added) = 1
        /\ Len(state[q].audio_chunks) = 1
        /\ task[q].pc = "synth"
        /\ Len(task[q].pending) = 1
        /\ state[q].audio_chunks[1].audio # Head(task[q].pending)

\* C34: once a session's status is complete or error its chunk list does
\* not grow any more, so the polls up to one that returns done = true have
\* returned every chunk the session ever produces.
C34_NoGrowthWhenTerminal ==
    [][\A q \in DOMAIN state :
          /\ state[q].status \in Terminal =>
                state'[q].audio_chunks = state[q].audio_chunks
          /\ (Polled' /\ last'.id = q /\ last'.done) =>
                hist'[q].delivered = state'[q].audio_chunks]_vars

\* C35: a session whose task is no longer running, for whatever reason, has
\* status complete or error.
C35_StoppedTaskIsTerminal ==
    \A q \in DOMAIN state :
        TaskDone(task[q]) => state[q].status \in Terminal

\* C36: add_text answers "queued" only for a text the session's task can
\* still take off the queue; in particular it never does so on a session
\* whose status is already error.
C36_QueuedIsConsumable ==
    \A q \in DOMAIN state :
        (last.op = "add_text" /\ last.id = q /\ last.result = "queued") =>
            state[q].status # "error"

\* C37: once end_queue has succeeded on a session that the timeout has not
\* already put in error, no step puts it in error by timeout, however long
\* its clock has been running: the task never comes to the staleness check,
\* because its wait finds the EOF marker.
C37_NoTimeoutAfterEnd ==
    [][\A q \in DOMAIN state :
          (hist[q].ended /\ state[q].error_message # TimeoutMessage) =>
              /\ state'[q].error_message # TimeoutMessage
              /\ ~AtTimeoutCheck(q)]_vars

\* The session was ended, more than 30 seconds have gone by without a call,
\* and the task is back at its wait with the EOF marker still to read.
C37_Witness ==
    \E q \in DOMAIN state :
        /\ hist[q].ended
        /\ state[q].status = "active"
        /\ state[q].idle > QUEUE_TIMEOUT_SECONDS
        /\ Len(state[q].audio_chunks) >= 1
        /\ Runnable(q) /\ task[q].pc = "wait"
        /\ state[q].text_queue # <<>>

\* The step is a cleanup of session q waking up.
CleanupFires(q) == cleanups[q] # <<>> /\ cleanups'[q] = Tail(cleanups[q])

\* C38: an id leaves the table only by cancel_queue or by a cleanup, which
\* a poll with done = true has started; a session removed by a cleanup has
\* a terminal status and all its chunks have been returned by polls; and a
\* cleanup that finds its id gone changes nothing.
C38_RemovedOnlyWhenDone ==
    [][\A q \in DOMAIN state :
          /\ (q \in tts_queues /\ q \notin tts_queues') =>
                \/ last'.op = "cancel" /\ last'.id = q
                \/ /\ CleanupFires(q)
                   /\ state[q].status \in Terminal
                   /\ state[q].chunks_delivered = Len(state[q].audio_chunks)
                   /\ hist[q].delivered = state[q].audio_chunks
          /\ Len(cleanups'[q]) > Len(cleanups[q]) =>
                (Polled' /\ last'.id = q /\ last'.done)
          /\ (CleanupFires(q) /\ q \notin tts_queues) =>
                UNCHANGED <<tts_queues, state, task, hist>>]_vars

\* A session whose chunks were all delivered has been removed by its first
\* cleanup, and a second cleanup is still to wake up.
C38_Witness ==
    \E q \in DOMAIN state :
        /\ q \notin tts_queues
        /\ hist[q].at_cancel < 0
        /\ Len(state[q].audio_chunks) >= 1
        /\ hist[q].delivered = state[q].audio_chunks
        /\ Len(cleanups[q]) = 1

\* The texts of session q that its task has taken off the queue: the
\* accepted texts but for those still queued.
FedTexts(q) ==
    LET queued == Cardinality({k \in DOMAIN state[q].text_queue :
                                  state[q].text_queue[k] # None})
    IN  SubSeq(hist[q].added, 1, Len(hist[q].added) - queued)

\* Whitespace aside, add_text keeps every character, in order, in the chunks
\* it returns followed by the buffer it leaves; flush leaves nothing behind.
AllAddsKeepText ==
    \A b \in Buffers : \A text \in Fragments :
        Squeeze(Flatten(AddTable[b][text].chunks) \o AddTable[b][text].buffer)
            = Squeeze(b \o text)

AllFlushesKeepText ==
    \A b \in Buffers :
        /\ Squeeze(Flatten(FlushTable[b].chunks)) = Squeeze(b)
        /\ Squeeze(FlushTable[b].buffer) = <<>>

\* C39: whitespace aside, the chunks emitted for a sequence of add_text
\* calls followed by flush spell the texts added: no other character is
\* lost, doubled or moved.  Checked for every text up to MaxBuffer
\* characters, and for every session: the chunks emitted so far and the
\* buffer spell the texts taken off the queue, and after the flush the
\* chunks alone spell all the texts.
C39_TextKeptUpToWhitespace ==
    /\ AllAddsKeepText
    /\ AllFlushesKeepText
    /\ \A q \in DOMAIN state :
          /\ Squeeze(Flatten(EmittedChunks(q)) \o task[q].buffer)
                = Squeeze(Flatten(FedTexts(q)))
          /\ task[q].eof =>
                Squeeze(Flatten(EmittedChunks(q))) = Squeeze(CumulativeText(q))

\* Two texts were cut into two chunks of max_tokens tokens by add_text and a
\* last chunk by flush.
C39_Witness ==
    \E q \in DOMAIN state :
        /\ hist[q].added = << <<" ", "a">>, <<"a", "a", " ", "a", "a", "a", "a">> >>
        /\ task[q].eof
        /\ Len(EmittedChunks(q)) = 3

TryTable == [b \in Buffers |-> [force_emit \in BOOLEAN |-> _try_extract_chunk(b, force_emit)]]

\* One iteration of the extraction loop on buffer b, result r: either no
\* chunk comes out and the buffer is as it was (the loop ends), or a chunk
\* comes out and the buffer holds fewer tokens than before.
IterationShrinks(b, r) ==
    IF r.chunk = None THEN r.buffer = b
    ELSE Len(tokenizer(r.buffer)) < Len(tokenizer(b))

AllIterationsShrink ==
    \A b \in Buffers : \A force_emit \in BOOLEAN :
        IterationShrinks(b, TryTable[b][force_emit])

\* add_text and flush return after at most one emitting iteration per token.
AllLoopsEnd ==
    \A b \in Buffers :
        /\ Len(FlushTable[b].chunks) <= Len(tokenizer(b))
        /\ \A text \in Fragments :
              Len(AddTable[b][text].chunks) <= Len(tokenizer(b \o text))

====
